---- MODULE Spec2Model ----
(***************************************************************************)
(* Model of the custom-resource handler of pg-user-and-database-cdk        *)
(* (src/handler/main.ts): handleCreate, handleUpdate and handleDelete run  *)
(* against one PostgreSQL server through two                               *)
(* LazyPostgresClientFromSecretsManager instances.                         *)
(*                                                                         *)
(* Every await of a handler is one step.  The server is modelled by its    *)
(* catalog: the roles with their password and attributes, the target       *)
(* database and its owner.  Each connect and each statement has the        *)
(* outcome PostgreSQL gives it on that catalog, which stays consistent     *)
(* (the owner of a database is an existing role).  What the catalog does   *)
(* not decide (the network, the secret store, the sessions other clients   *)
(* hold) is the environment's: it may make any secret lookup, connect or   *)
(* statement fail (a fault).                                               *)
(*                                                                         *)
(* Two smaller specifications stand beside that one (Spec): TokenSpec, the *)
(* physical resource id as a function of host, database name and username  *)
(* over names that may hold a '/', and LsvSpec, the handler of             *)
(* src/latest_secret_version_handler/main.ts driven through the life of    *)
(* one custom resource.  A fourth, MgrSpec, calls the three methods of one  *)
(* LazyPostgresClientFromSecretsManager in any order.  Each keeps the       *)
(* variables of the others still.                                          *)
(***************************************************************************)
EXTENDS Naturals, Sequences, FiniteSets, TLC

VARIABLES
    db,          \* the server's catalog
    db0,         \* the catalog when the current run started
    userSecret,  \* content of the user secret (username, password)
    req,         \* the event being handled
    pc,          \* position of the handler
    mgr,         \* the two LazyPostgresClientFromSecretsManager objects
    sql,         \* statements issued in this run, in order, with their connection
    result,      \* what the run returned or threw
    faults,      \* faults the environment injected in this run
    prev,        \* summary of the run before this one
    tok,         \* TokenSpec: the token Create returned and the last identity check
    lsv,         \* LsvSpec: the secret store, the custom resource, the last response
    lazy         \* MgrSpec: one manager and the last call made on it

pgVars == <<db, db0, userSecret, req, pc, mgr, sql, result, faults, prev>>
aside == <<tok, lsv, lazy>>
vars == <<pgVars, aside>>

----------------------------------------------------------------------------
(* Bounds *)

\* Faults the environment injects in one run.
MaxFaults == 2

\* Calls made on the manager of MgrSpec.
MaxCalls == 4

----------------------------------------------------------------------------
(* PostgresErrorCodes, and the other condition codes PostgreSQL raises for *)
(* the statements issued.                                                  *)

DUPLICATE_DATABASE == "42P04"
DUPLICATE_OBJECT == "42710"
INSUFFICIENT_PRIVILEGE == "42501"
AUTHENTICATION_FAILED == "28P01"
\* not named by the handler, raised by the server all the same
UNDEFINED_OBJECT == "42704"
INVALID_CATALOG_NAME == "3D000"
DEPENDENT_OBJECTS_STILL_EXIST == "2BP01"
\* a fault with a structured code, and one without
INTERNAL_ERROR == "XX000"
NoCode == "nocode"

PgCodes == {DUPLICATE_DATABASE, DUPLICATE_OBJECT, INSUFFICIENT_PRIVILEGE,
            AUTHENTICATION_FAILED, UNDEFINED_OBJECT, INVALID_CATALOG_NAME,
            DEPENDENT_OBJECTS_STILL_EXIST, INTERNAL_ERROR}

\* Errors thrown by the handler itself.
CollisionError == "Cannot create user with same name as the admin user"
IdentityError == "Cannot change database name or username"

\* isPostgresError: an Error object that carries a string code.
isPostgresError(e) == e \in PgCodes

----------------------------------------------------------------------------
(* The request *)

Host == "db.local"
DatabaseName == "app"
AdminSecret == [username |-> "root", password |-> "adm"]
UserNames == {"root", "svc"}
UserSecrets == {[username |-> u, password |-> "new"] : u \in UserNames}

\* Mutant: the parts joined in another order.
PhysicalResourceIdDatabaseFirst(host, databaseName, username) ==
    databaseName \o "/" \o host \o "/" \o username

\* [dbClusterHostname, databaseName, username].join('/')
PhysicalResourceId(host, databaseName, username) ==
    host \o "/" \o databaseName \o "/" \o username

\* Tokens a caller may hand to Update and Delete.
Tokens == {PhysicalResourceId(Host, DatabaseName, "svc"),
           PhysicalResourceId(Host, DatabaseName, "root"),
           PhysicalResourceId(Host, "old", "svc")}

NoToken == "-"

customResourcePropertiesSchema ==
    [onDelete : {"Delete", "Retain"},
     onCreateIfExists : {"Fail", "Adopt", "DeleteAndRecreate"},
     onUpdateIfUserDoesNotExist : {"Ignore", "Create"},
     onUpdateIfDatabaseDoesNotExist : {"Ignore", "Create"},
     onUpdateSetUserPassword : {"Always", "Never"},
     onUpdateSetUserPermissions : {"Always", "Never"},
     onUpdateSetDatabaseOwnership : {"Always", "Never"}]

\* The policies a request type does not read are set to their defaults, so
\* that a request is enumerated once.
DefaultProps ==
    [onDelete |-> "Delete", onCreateIfExists |-> "Fail",
     onUpdateIfUserDoesNotExist |-> "Ignore",
     onUpdateIfDatabaseDoesNotExist |-> "Ignore",
     onUpdateSetUserPassword |-> "Never",
     onUpdateSetUserPermissions |-> "Never",
     onUpdateSetDatabaseOwnership |-> "Never"]

CreateEvents ==
    {[RequestType |-> "Create", PhysicalResourceId |-> NoToken,
      ResourceProperties |-> [DefaultProps EXCEPT !.onCreateIfExists = p]] :
        p \in {"Fail", "Adopt", "DeleteAndRecreate"}}

UpdateEvents ==
    {[RequestType |-> "Update", PhysicalResourceId |-> t,
      ResourceProperties |-> p] :
        t \in Tokens,
        p \in {q \in customResourcePropertiesSchema :
                 /\ q.onDelete = DefaultProps.onDelete
                 /\ q.onCreateIfExists = DefaultProps.onCreateIfExists}}

DeleteEvents ==
    {[RequestType |-> "Delete", PhysicalResourceId |-> t,
      ResourceProperties |-> [DefaultProps EXCEPT !.onDelete = p]] :
        t \in Tokens, p \in {"Delete", "Retain"}}

Events == CreateEvents \cup UpdateEvents \cup DeleteEvents

NoEvent == [RequestType |-> "None", PhysicalResourceId |-> NoToken,
            ResourceProperties |-> DefaultProps]

----------------------------------------------------------------------------
(* The server: catalog and statements *)

Passwords == {"adm", "old", "new"}
NoUser == [exists |-> FALSE, password |-> "-", createdb |-> FALSE, login |-> FALSE]
NoOwner == "-"

Role(pw, createdb, login) ==
    [exists |-> TRUE, password |-> pw, createdb |-> createdb, login |-> login]

\* The admin role of the admin secret, as the server starts.
AdminRole == Role(AdminSecret.password, TRUE, TRUE)

\* Catalogs a server can be in when the first event arrives: the admin role
\* exists; the target role is absent or present with any password and
\* attributes; the target database is absent or owned by an existing role.
InitialCatalogs ==
    {c \in [users : [UserNames -> {NoUser} \cup
                        {Role(pw, cdb, lg) : pw \in {"old", "new"},
                                             cdb \in BOOLEAN, lg \in BOOLEAN}
                        \cup {AdminRole}],
            dbExists : BOOLEAN,
            dbOwner : UserNames \cup {NoOwner}] :
        /\ c.users["root"] = AdminRole
        /\ c.users["svc"] # AdminRole
        /\ c.dbExists = (c.dbOwner # NoOwner)
        /\ c.dbOwner # NoOwner => c.users[c.dbOwner].exists}

Ok == "ok"

\* Outcome of one statement: the error raised (Ok for none) and the catalog after.
Outcome(err, cat) == [err |-> err, cat |-> cat]

\* CREATE USER u WITH PASSWORD pw CREATEDB LOGIN
CreateUser(cat, u, pw) ==
    IF cat.users[u].exists
    THEN Outcome(DUPLICATE_OBJECT, cat)
    ELSE Outcome(Ok, [cat EXCEPT !.users[u] = Role(pw, TRUE, TRUE)])

\* ALTER USER u WITH PASSWORD pw
AlterUserPassword(cat, u, pw) ==
    IF ~cat.users[u].exists
    THEN Outcome(UNDEFINED_OBJECT, cat)
    ELSE Outcome(Ok, [cat EXCEPT !.users[u].password = pw])

\* ALTER USER u WITH CREATEDB LOGIN
AlterUserPermissions(cat, u) ==
    IF ~cat.users[u].exists
    THEN Outcome(UNDEFINED_OBJECT, cat)
    ELSE Outcome(Ok, [cat EXCEPT !.users[u].createdb = TRUE,
                                 !.users[u].login = TRUE])

\* DROP USER [IF EXISTS] u: a role that owns a database cannot be dropped.
DropUser(cat, u, ifExists) ==
    IF ~cat.users[u].exists
    THEN Outcome(IF ifExists THEN Ok ELSE UNDEFINED_OBJECT, cat)
    ELSE IF cat.dbOwner = u
    THEN Outcome(DEPENDENT_OBJECTS_STILL_EXIST, cat)
    ELSE Outcome(Ok, [cat EXCEPT !.users[u] = NoUser])

\* CREATE DATABASE d, issued by role `by`: the new database is owned by the
\* role that created it.
CreateDatabase(cat, by) ==
    IF ~cat.users[by].createdb
    THEN Outcome(INSUFFICIENT_PRIVILEGE, cat)
    ELSE IF cat.dbExists
    THEN Outcome(DUPLICATE_DATABASE, cat)
    ELSE Outcome(Ok, [cat EXCEPT !.dbExists = TRUE, !.dbOwner = by])

\* DROP DATABASE [IF EXISTS] d
DropDatabase(cat, ifExists) ==
    IF ~cat.dbExists
    THEN Outcome(IF ifExists THEN Ok ELSE INVALID_CATALOG_NAME, cat)
    ELSE Outcome(Ok, [cat EXCEPT !.dbExists = FALSE, !.dbOwner = NoOwner])

\* ALTER DATABASE d OWNER TO u
AlterDatabaseOwner(cat, u) ==
    IF ~cat.dbExists
    THEN Outcome(INVALID_CATALOG_NAME, cat)
    ELSE IF ~cat.users[u].exists
    THEN Outcome(UNDEFINED_OBJECT, cat)
    ELSE Outcome(Ok, [cat EXCEPT !.dbOwner = u])

\* client.connect() with the credentials of a secret to `database`: the
\* role must exist, may log in and gives its password, and the database
\* must exist ('postgres' always does).
Connect(cat, cred, database) ==
    IF \/ ~cat.users[cred.username].exists
       \/ ~cat.users[cred.username].login
       \/ cat.users[cred.username].password # cred.password
    THEN AUTHENTICATION_FAILED
    ELSE IF database # "postgres" /\ ~cat.dbExists
    THEN INVALID_CATALOG_NAME
    ELSE Ok

----------------------------------------------------------------------------
(* LazyPostgresClientFromSecretsManager *)

Managers == {"admin", "user"}

\* constructor: neither credentials nor client.
NewManager ==
    [credentials |-> FALSE, client |-> "none",
     lookups |-> 0, opens |-> 0, closes |-> 0]

\* The secret props.dbSecretArn names.
SecretOf(m) == IF m = "admin" THEN AdminSecret ELSE userSecret

\* props.databaseName: 'postgres' for the admin manager, the target database
\* for the user manager.
DatabaseOf(m) == IF m = "admin" THEN "postgres" ELSE DatabaseName

\* Faults the environment may still inject in this run.
FaultChoices == {Ok} \cup (IF faults < MaxFaults THEN {INTERNAL_ERROR, NoCode} ELSE {})
SecretFaultChoices == {Ok} \cup (IF faults < MaxFaults THEN {NoCode} ELSE {})

Count(f) == IF f = Ok THEN faults ELSE faults + 1

\* Mutant: the secret is looked up at every call.
getCredentialsUnmemoized(m, f) ==
    IF f # Ok
    THEN [err |-> f, m |-> [m EXCEPT !.lookups = @ + 1]]
    ELSE [err |-> Ok, m |-> [m EXCEPT !.lookups = @ + 1, !.credentials = TRUE]]

\* getCredentials(): memoized; otherwise one GetSecretValue, which may fail.
\* Returns the error and the manager after.
getCredentials(m, f) ==
    IF m.credentials
    THEN [err |-> Ok, m |-> m]
    ELSE IF f # Ok
    THEN [err |-> f, m |-> [m EXCEPT !.lookups = @ + 1]]
    ELSE [err |-> Ok, m |-> [m EXCEPT !.lookups = @ + 1, !.credentials = TRUE]]

\* getClient(): memoized on this.client, which is assigned before connect()
\* is awaited.  f is the fault injected: one without a code hits the secret
\* lookup when there is one to do, any other the connect.
getClient(name, m, cat, f) ==
    IF m.client # "none"
    THEN [err |-> Ok, m |-> m]
    ELSE LET c == getCredentials(m, IF f = NoCode THEN f ELSE Ok)
         IN  IF c.err # Ok
             THEN c
             ELSE LET e == IF f # Ok THEN f
                           ELSE Connect(cat, SecretOf(name), DatabaseOf(name))
                  IN  IF e # Ok
                      THEN [err |-> e, m |-> [c.m EXCEPT !.client = "failed"]]
                      ELSE [err |-> Ok,
                            m |-> [c.m EXCEPT !.client = "connected", !.opens = @ + 1]]

\* pg.Client.end()
clientEnd(m) == [m EXCEPT !.client = "ended", !.closes = @ + 1]

\* Mutant: the guard of end() inverted.
endIfNone(m) == IF m.client = "none" THEN clientEnd(m) ELSE m

\* Mutant: a manager without a client opens one to close it.
endConnectingFirst(m) ==
    IF m.client # "none" THEN clientEnd(m)
    ELSE clientEnd([m EXCEPT !.opens = @ + 1])

\* end(): closes the client if one was created.
end(m) == IF m.client # "none" THEN clientEnd(m) ELSE m

----------------------------------------------------------------------------
(* Bookkeeping of a run *)

Running == [status |-> "running", token |-> NoToken, error |-> Ok]
Returned(token) == [status |-> "ok", token |-> token, error |-> Ok]
Threw(e) == [status |-> "failed", token |-> NoToken, error |-> e]

\* One statement issued: the connection, the statement, the error it raised.
Stmt(conn, text, err) == [conn |-> conn, stmt |-> text, err |-> err]

\* The policy of the finished run that a following run's claims refer to.
PolicyOf(r) ==
    CASE r.RequestType = "Create" -> r.ResourceProperties.onCreateIfExists
      [] r.RequestType = "Delete" -> r.ResourceProperties.onDelete
      [] OTHER -> "-"

NoPrev == [type |-> "None", policy |-> "-", status |-> "-", changed |-> FALSE]

Finished == pc \in {"returned", "threw"}

TypeOK ==
    /\ db \in [users : [UserNames -> [exists : BOOLEAN, password : Passwords \cup {"-"},
                                      createdb : BOOLEAN, login : BOOLEAN]],
               dbExists : BOOLEAN, dbOwner : UserNames \cup {NoOwner}]
    /\ userSecret \in UserSecrets
    /\ req \in Events \cup {NoEvent}
    /\ faults \in 0..MaxFaults
    /\ result.status \in {"running", "ok", "failed"}

\* The token function and the secret-version handler before anything ran.
NoTriple == [host |-> "-", databaseName |-> "-", username |-> "-"]
TokAtRest ==
    [created |-> NoTriple, token |-> NoToken, checked |-> NoTriple, accepted |-> FALSE]

\* Secrets, and the version ids the secret store gives.
SecretArns == {"arn:user", "arn:other"}
VersionIds == {"v1", "v2"}
NoVersion == "-"
NoResource == "-"
NoResponse ==
    [RequestType |-> "-", err |-> Ok, PhysicalResourceId |-> "-",
     Data |-> [LatestVersionId |-> "-"], lists |-> 0]
LsvAtRest ==
    [current |-> [a \in SecretArns |-> "v1"],
     secretArn |-> "-", PhysicalResourceId |-> NoResource,
     LatestVersionId |-> NoVersion, response |-> NoResponse]

\* A manager just constructed, nothing called on it yet.
LazyAtRest ==
    [name |-> "admin", m |-> NewManager, before |-> NewManager, call |-> "-",
     err |-> Ok, made |-> 0, calls |-> 0, failed |-> FALSE]

Init ==
    /\ tok = TokAtRest
    /\ lsv = LsvAtRest
    /\ lazy = LazyAtRest
    /\ db \in InitialCatalogs
    /\ db0 = db
    /\ userSecret \in UserSecrets
    /\ req = NoEvent
    /\ pc = "idle"
    /\ mgr = [m \in Managers |-> NewManager]
    /\ sql = <<>>
    /\ result = Running
    /\ faults = 0
    /\ prev = NoPrev

\* handler: decodeEvent and the dispatch on RequestType; each handler
\* constructs its own managers.
handler ==
    /\ pc = "idle"
    /\ \E e \in Events :
        /\ req' = e
        /\ pc' = CASE e.RequestType = "Create" -> "create_249"
                   [] e.RequestType = "Update" -> "update_331"
                   [] e.RequestType = "Delete" -> "delete_418"
    /\ UNCHANGED <<db, db0, userSecret, mgr, sql, result, faults, prev, aside>>

\* The invocation is over: nothing of it is kept but the server's catalog
\* (and, for the next run, what this one was).
invocationEnds ==
    /\ Finished
    /\ pc' = "idle"
    /\ prev' = [type |-> req.RequestType, policy |-> PolicyOf(req),
                status |-> result.status, changed |-> db # db0]
    /\ req' = NoEvent
    /\ db0' = db
    /\ mgr' = [m \in Managers |-> NewManager]
    /\ sql' = <<>>
    /\ result' = Running
    /\ faults' = 0
    /\ UNCHANGED <<db, userSecret, aside>>

\* A throw leaves the handler: nothing after it runs.
Throw(e) ==
    /\ pc' = "threw"
    /\ result' = Threw(e)

Return(token) ==
    /\ pc' = "returned"
    /\ result' = Returned(token)

\* Mutant: the passwords are compared instead of the usernames.
CollidesOnPassword(userCredentials, adminCredentials) ==
    userCredentials.password = adminCredentials.password

\* userCredentials.username === adminCredentials.username
Collides(userCredentials, adminCredentials) ==
    userCredentials.username = adminCredentials.username

----------------------------------------------------------------------------
(* handleCreate *)

\* Mutant: a duplicate user is adopted whatever the policy.
onCreateUserErrorAnyPolicy(onCreateIfExists, e) ==
    IF ~isPostgresError(e) THEN "throw"
    ELSE IF e = DUPLICATE_OBJECT
    THEN IF onCreateIfExists = "DeleteAndRecreate" THEN "create_278" ELSE "create_275"
    ELSE "throw"

\* Mutant: Adopt and DeleteAndRecreate handle every PostgreSQL error of
\* CREATE USER as a duplicate user.
onCreateUserErrorAnyCode(onCreateIfExists, e) ==
    IF ~isPostgresError(e) THEN "throw"
    ELSE IF onCreateIfExists = "Adopt" THEN "create_275"
    ELSE IF onCreateIfExists = "DeleteAndRecreate" THEN "create_278"
    ELSE "throw"

\* Mutant: Adopt takes an existing user as it is.
onCreateUserErrorKeepUser(onCreateIfExists, e) ==
    IF ~isPostgresError(e) THEN "throw"
    ELSE IF onCreateIfExists = "Adopt" /\ e = DUPLICATE_OBJECT THEN "create_287"
    ELSE IF onCreateIfExists = "DeleteAndRecreate" /\ e = DUPLICATE_OBJECT
    THEN "create_278"
    ELSE "throw"

\* The catch of lines 268-283: where an error of CREATE USER leads.
onCreateUserError(onCreateIfExists, e) ==
    IF ~isPostgresError(e) THEN "throw"
    ELSE IF onCreateIfExists = "Adopt" /\ e = DUPLICATE_OBJECT THEN "create_275"
    ELSE IF onCreateIfExists = "DeleteAndRecreate" /\ e = DUPLICATE_OBJECT
    THEN "create_278"
    ELSE "throw"

\* Mutant: Adopt leaves the owner of an existing database as it is.
onCreateDatabaseErrorKeepOwner(onCreateIfExists, e) ==
    IF ~isPostgresError(e) THEN "throw"
    ELSE IF onCreateIfExists = "Adopt" /\ e = DUPLICATE_DATABASE THEN "create_314"
    ELSE IF onCreateIfExists = "DeleteAndRecreate"
    THEN IF e = DUPLICATE_DATABASE THEN "create_306" ELSE "create_314"
    ELSE "throw"

\* The catch of lines 290-312: where an error of CREATE DATABASE leads.
onCreateDatabaseError(onCreateIfExists, e) ==
    IF ~isPostgresError(e) THEN "throw"
    ELSE IF onCreateIfExists = "Adopt" /\ e = DUPLICATE_DATABASE THEN "create_302"
    ELSE IF onCreateIfExists = "DeleteAndRecreate"
    THEN IF e = DUPLICATE_DATABASE THEN "create_306" ELSE "create_314"
    ELSE "throw"

\* One awaited step that cannot be caught: go on to `next` or throw.
Then(err, next) ==
    IF err # Ok THEN Throw(err) ELSE pc' = next /\ UNCHANGED result

\* The same inside a try: `to` is where the catch leads ("throw" to rethrow).
Caught(err, next, to) ==
    IF err = Ok THEN pc' = next /\ UNCHANGED result
    ELSE IF to = "throw" THEN Throw(err)
    ELSE pc' = to /\ UNCHANGED result

\* line 249: userClientManager.getCredentials()
create_249 ==
    /\ pc = "create_249"
    /\ \E f \in SecretFaultChoices :
        LET r == getCredentials(mgr["user"], f) IN
        /\ mgr' = [mgr EXCEPT !["user"] = r.m]
        /\ faults' = Count(f)
        /\ Then(r.err, "create_250")
    /\ UNCHANGED <<db, db0, userSecret, req, sql, prev, aside>>

\* lines 250-254: adminClientManager.getCredentials(), then the collision check.
create_250 ==
    /\ pc = "create_250"
    /\ \E f \in SecretFaultChoices :
        LET r == getCredentials(mgr["admin"], f) IN
        /\ mgr' = [mgr EXCEPT !["admin"] = r.m]
        /\ faults' = Count(f)
        /\ IF r.err = Ok /\ Collides(userSecret, AdminSecret)
           THEN Throw(CollisionError)
           ELSE Then(r.err, "create_256")
    /\ UNCHANGED <<db, db0, userSecret, req, sql, prev, aside>>

\* line 256: adminClientManager.getClient()
create_256 ==
    /\ pc = "create_256"
    /\ \E f \in FaultChoices :
        LET r == getClient("admin", mgr["admin"], db, f) IN
        /\ mgr' = [mgr EXCEPT !["admin"] = r.m]
        /\ faults' = Count(f)
        /\ Then(r.err, "create_267")
    /\ UNCHANGED <<db, db0, userSecret, req, sql, prev, aside>>

\* lines 267-283: CREATE USER, and the catch.
create_267 ==
    /\ pc = "create_267"
    /\ \E f \in FaultChoices :
        LET r == IF f # Ok THEN Outcome(f, db)
                 ELSE CreateUser(db, userSecret.username, userSecret.password) IN
        /\ db' = r.cat
        /\ sql' = Append(sql, Stmt("admin", "CREATE USER", r.err))
        /\ faults' = Count(f)
        /\ Caught(r.err, "create_287",
                  onCreateUserError(req.ResourceProperties.onCreateIfExists, r.err))
    /\ UNCHANGED <<db0, userSecret, req, mgr, prev, aside>>

\* line 275: Adopt, ALTER USER ... WITH PASSWORD
create_275 ==
    /\ pc = "create_275"
    /\ \E f \in FaultChoices :
        LET r == IF f # Ok THEN Outcome(f, db)
                 ELSE AlterUserPassword(db, userSecret.username, userSecret.password) IN
        /\ db' = r.cat
        /\ sql' = Append(sql, Stmt("admin", "ALTER USER PASSWORD", r.err))
        /\ faults' = Count(f)
        /\ Then(r.err, "create_276")
    /\ UNCHANGED <<db0, userSecret, req, mgr, prev, aside>>

\* line 276: Adopt, ALTER USER ... WITH CREATEDB LOGIN
create_276 ==
    /\ pc = "create_276"
    /\ \E f \in FaultChoices :
        LET r == IF f # Ok THEN Outcome(f, db)
                 ELSE AlterUserPermissions(db, userSecret.username) IN
        /\ db' = r.cat
        /\ sql' = Append(sql, Stmt("admin", "ALTER USER CREATEDB LOGIN", r.err))
        /\ faults' = Count(f)
        /\ Then(r.err, "create_287")
    /\ UNCHANGED <<db0, userSecret, req, mgr, prev, aside>>

\* line 278: DeleteAndRecreate, DROP USER
create_278 ==
    /\ pc = "create_278"
    /\ \E f \in FaultChoices :
        LET r == IF f # Ok THEN Outcome(f, db)
                 ELSE DropUser(db, userSecret.username, FALSE) IN
        /\ db' = r.cat
        /\ sql' = Append(sql, Stmt("admin", "DROP USER", r.err))
        /\ faults' = Count(f)
        /\ Then(r.err, "create_279")
    /\ UNCHANGED <<db0, userSecret, req, mgr, prev, aside>>

\* line 279: DeleteAndRecreate, CREATE USER again
create_279 ==
    /\ pc = "create_279"
    /\ \E f \in FaultChoices :
        LET r == IF f # Ok THEN Outcome(f, db)
                 ELSE CreateUser(db, userSecret.username, userSecret.password) IN
        /\ db' = r.cat
        /\ sql' = Append(sql, Stmt("admin", "CREATE USER", r.err))
        /\ faults' = Count(f)
        /\ Then(r.err, "create_287")
    /\ UNCHANGED <<db0, userSecret, req, mgr, prev, aside>>

\* line 287: userClientManager.getClient()
create_287 ==
    /\ pc = "create_287"
    /\ \E f \in FaultChoices :
        LET r == getClient("user", mgr["user"], db, f) IN
        /\ mgr' = [mgr EXCEPT !["user"] = r.m]
        /\ faults' = Count(f)
        /\ Then(r.err, "create_289")
    /\ UNCHANGED <<db, db0, userSecret, req, sql, prev, aside>>

\* lines 289-312: CREATE DATABASE on the user connection, and the catch.
create_289 ==
    /\ pc = "create_289"
    /\ \E f \in FaultChoices :
        LET r == IF f # Ok THEN Outcome(f, db)
                 ELSE CreateDatabase(db, userSecret.username) IN
        /\ db' = r.cat
        /\ sql' = Append(sql, Stmt("user", "CREATE DATABASE", r.err))
        /\ faults' = Count(f)
        /\ Caught(r.err, "create_314",
                  onCreateDatabaseError(req.ResourceProperties.onCreateIfExists, r.err))
    /\ UNCHANGED <<db0, userSecret, req, mgr, prev, aside>>

\* line 302: Adopt, ALTER DATABASE ... OWNER TO on the admin connection
create_302 ==
    /\ pc = "create_302"
    /\ \E f \in FaultChoices :
        LET r == IF f # Ok THEN Outcome(f, db)
                 ELSE AlterDatabaseOwner(db, userSecret.username) IN
        /\ db' = r.cat
        /\ sql' = Append(sql, Stmt("admin", "ALTER DATABASE OWNER", r.err))
        /\ faults' = Count(f)
        /\ Then(r.err, "create_314")
    /\ UNCHANGED <<db0, userSecret, req, mgr, prev, aside>>

\* line 306: DeleteAndRecreate, DROP DATABASE on the admin connection
create_306 ==
    /\ pc = "create_306"
    /\ \E f \in FaultChoices :
        LET r == IF f # Ok THEN Outcome(f, db)
                 ELSE DropDatabase(db, FALSE) IN
        /\ db' = r.cat
        /\ sql' = Append(sql, Stmt("admin", "DROP DATABASE", r.err))
        /\ faults' = Count(f)
        /\ Then(r.err, "create_307")
    /\ UNCHANGED <<db0, userSecret, req, mgr, prev, aside>>

\* line 307: DeleteAndRecreate, CREATE DATABASE again on the user connection
create_307 ==
    /\ pc = "create_307"
    /\ \E f \in FaultChoices :
        LET r == IF f # Ok THEN Outcome(f, db)
                 ELSE CreateDatabase(db, userSecret.username) IN
        /\ db' = r.cat
        /\ sql' = Append(sql, Stmt("user", "CREATE DATABASE", r.err))
        /\ faults' = Count(f)
        /\ Then(r.err, "create_314")
    /\ UNCHANGED <<db0, userSecret, req, mgr, prev, aside>>

\* line 314: adminClient.end()
create_314 ==
    /\ pc = "create_314"
    /\ mgr' = [mgr EXCEPT !["admin"] = clientEnd(@)]
    /\ pc' = "create_315"
    /\ UNCHANGED <<db, db0, userSecret, req, sql, result, faults, prev, aside>>

\* lines 315-319: userClient.end(), return the token.
create_315 ==
    /\ pc = "create_315"
    /\ mgr' = [mgr EXCEPT !["user"] = clientEnd(@)]
    /\ Return(PhysicalResourceId(Host, DatabaseName, userSecret.username))
    /\ UNCHANGED <<db, db0, userSecret, req, sql, faults, prev, aside>>

handleCreate ==
    \/ create_249
    \/ create_250
    \/ create_256
    \/ create_267
    \/ create_275
    \/ create_276
    \/ create_278
    \/ create_279
    \/ create_287
    \/ create_289
    \/ create_302
    \/ create_306
    \/ create_307
    \/ create_314
    \/ create_315

----------------------------------------------------------------------------
(* handleUpdate *)

\* Mutant: the comparison of line 333 inverted.
IdentityMatchesInverted(event, userCredentials) ==
    event.PhysicalResourceId #
        PhysicalResourceId(Host, DatabaseName, userCredentials.username)

\* line 333: the token given against the one recomputed.
IdentityMatches(event, userCredentials) ==
    event.PhysicalResourceId =
        PhysicalResourceId(Host, DatabaseName, userCredentials.username)

\* The five guards of lines 344, 364, 372, 380 and 400, in source order.
AxisOn(p, k) ==
    CASE k = 1 -> p.onUpdateIfUserDoesNotExist = "Create"
      [] k = 2 -> p.onUpdateSetUserPassword = "Always"
      [] k = 3 -> p.onUpdateSetUserPermissions = "Always"
      [] k = 4 -> p.onUpdateIfDatabaseDoesNotExist = "Create"
      [] k = 5 -> p.onUpdateSetDatabaseOwnership = "Always"

AxisEntry == <<"update_347", "update_366", "update_374", "update_383", "update_402">>

\* Where control goes from before guard k: the first guard from k on that
\* holds, or the closing of the connections.
\* Mutant: every axis runs, whatever its policy.
NextAxisUnguarded(p, k) ==
    IF k > 5 THEN "update_408" ELSE AxisEntry[k]

RECURSIVE NextAxis(_, _)
NextAxis(p, k) ==
    IF k > 5 THEN "update_408"
    ELSE IF AxisOn(p, k) THEN AxisEntry[k]
    ELSE NextAxis(p, k + 1)

\* Mutant: every PostgreSQL error is swallowed.
onUpdateCreateErrorAnyCode(e, duplicate, next) ==
    IF ~isPostgresError(e) THEN "throw" ELSE next

\* The catches of lines 349-359 and 385-395: only `duplicate` is swallowed.
onUpdateCreateError(e, duplicate, next) ==
    IF ~isPostgresError(e) THEN "throw"
    ELSE IF e # duplicate THEN "throw"
    ELSE next

\* lines 331-335: userClient.getCredentials(), then the identity check.
update_331 ==
    /\ pc = "update_331"
    /\ \E f \in SecretFaultChoices :
        LET r == getCredentials(mgr["user"], f) IN
        /\ mgr' = [mgr EXCEPT !["user"] = r.m]
        /\ faults' = Count(f)
        /\ IF r.err = Ok /\ ~IdentityMatches(req, userSecret)
           THEN Throw(IdentityError)
           ELSE Then(r.err, NextAxis(req.ResourceProperties, 1))
    /\ UNCHANGED <<db, db0, userSecret, req, sql, prev, aside>>

\* Outside a try there is no error to swallow.
NotCaught == "-"

\* One getClient() of an axis, then on to `next`.  Inside a try, an error
\* with the code `duplicate` is swallowed and control goes to guard k.
UpdateGetClient(here, name, next, duplicate, k) ==
    /\ pc = here
    /\ \E f \in FaultChoices :
        LET r == getClient(name, mgr[name], db, f) IN
        /\ mgr' = [mgr EXCEPT ![name] = r.m]
        /\ faults' = Count(f)
        /\ IF duplicate # NotCaught
           THEN Caught(r.err, next,
                       onUpdateCreateError(r.err, duplicate,
                                           NextAxis(req.ResourceProperties, k)))
           ELSE Then(r.err, next)
    /\ UNCHANGED <<db, db0, userSecret, req, sql, prev, aside>>

\* line 347: adminClient.getClient(), inside the try
update_347 == UpdateGetClient("update_347", "admin", "update_348", DUPLICATE_OBJECT, 2)

\* lines 348-359: CREATE USER; a duplicate is swallowed.
update_348 ==
    /\ pc = "update_348"
    /\ \E f \in FaultChoices :
        LET r == IF f # Ok THEN Outcome(f, db)
                 ELSE CreateUser(db, userSecret.username, userSecret.password)
            next == NextAxis(req.ResourceProperties, 2) IN
        /\ db' = r.cat
        /\ sql' = Append(sql, Stmt("admin", "CREATE USER", r.err))
        /\ faults' = Count(f)
        /\ Caught(r.err, next, onUpdateCreateError(r.err, DUPLICATE_OBJECT, next))
    /\ UNCHANGED <<db0, userSecret, req, mgr, prev, aside>>

\* line 366: adminClient.getClient()
update_366 == UpdateGetClient("update_366", "admin", "update_367", NotCaught, 3)

\* line 367: ALTER USER ... WITH PASSWORD
update_367 ==
    /\ pc = "update_367"
    /\ \E f \in FaultChoices :
        LET r == IF f # Ok THEN Outcome(f, db)
                 ELSE AlterUserPassword(db, userSecret.username, userSecret.password) IN
        /\ db' = r.cat
        /\ sql' = Append(sql, Stmt("admin", "ALTER USER PASSWORD", r.err))
        /\ faults' = Count(f)
        /\ Then(r.err, NextAxis(req.ResourceProperties, 3))
    /\ UNCHANGED <<db0, userSecret, req, mgr, prev, aside>>

\* line 374: adminClient.getClient()
update_374 == UpdateGetClient("update_374", "admin", "update_375", NotCaught, 4)

\* line 375: ALTER USER ... WITH CREATEDB LOGIN
update_375 ==
    /\ pc = "update_375"
    /\ \E f \in FaultChoices :
        LET r == IF f # Ok THEN Outcome(f, db)
                 ELSE AlterUserPermissions(db, userSecret.username) IN
        /\ db' = r.cat
        /\ sql' = Append(sql, Stmt("admin", "ALTER USER CREATEDB LOGIN", r.err))
        /\ faults' = Count(f)
        /\ Then(r.err, NextAxis(req.ResourceProperties, 4))
    /\ UNCHANGED <<db0, userSecret, req, mgr, prev, aside>>

\* line 383: userClient.getClient(), inside the try
update_383 == UpdateGetClient("update_383", "user", "update_384", DUPLICATE_DATABASE, 5)

\* lines 384-395: CREATE DATABASE on the user connection; a duplicate is
\* swallowed.
update_384 ==
    /\ pc = "update_384"
    /\ \E f \in FaultChoices :
        LET r == IF f # Ok THEN Outcome(f, db)
                 ELSE CreateDatabase(db, userSecret.username)
            next == NextAxis(req.ResourceProperties, 5) IN
        /\ db' = r.cat
        /\ sql' = Append(sql, Stmt("user", "CREATE DATABASE", r.err))
        /\ faults' = Count(f)
        /\ Caught(r.err, next, onUpdateCreateError(r.err, DUPLICATE_DATABASE, next))
    /\ UNCHANGED <<db0, userSecret, req, mgr, prev, aside>>

\* line 402: adminClient.getClient()
update_402 == UpdateGetClient("update_402", "admin", "update_403", NotCaught, 6)

\* line 403: ALTER DATABASE ... OWNER TO
update_403 ==
    /\ pc = "update_403"
    /\ \E f \in FaultChoices :
        LET r == IF f # Ok THEN Outcome(f, db)
                 ELSE AlterDatabaseOwner(db, userSecret.username) IN
        /\ db' = r.cat
        /\ sql' = Append(sql, Stmt("admin", "ALTER DATABASE OWNER", r.err))
        /\ faults' = Count(f)
        /\ Then(r.err, "update_408")
    /\ UNCHANGED <<db0, userSecret, req, mgr, prev, aside>>

\* line 408: adminClient.end()
update_408 ==
    /\ pc = "update_408"
    /\ mgr' = [mgr EXCEPT !["admin"] = end(@)]
    /\ pc' = "update_409"
    /\ UNCHANGED <<db, db0, userSecret, req, sql, result, faults, prev, aside>>

\* lines 409-413: userClient.end(), return the PhysicalResourceId given.
update_409 ==
    /\ pc = "update_409"
    /\ mgr' = [mgr EXCEPT !["user"] = end(@)]
    /\ Return(req.PhysicalResourceId)
    /\ UNCHANGED <<db, db0, userSecret, req, sql, faults, prev, aside>>

handleUpdate ==
    \/ update_331
    \/ update_347
    \/ update_348
    \/ update_366
    \/ update_367
    \/ update_374
    \/ update_375
    \/ update_383
    \/ update_384
    \/ update_402
    \/ update_403
    \/ update_408
    \/ update_409

----------------------------------------------------------------------------
(* handleDelete *)

\* Mutant: the early return taken for Delete instead of Retain.
RetainsInverted(props) == props.onDelete = "Delete"

\* event.ResourceProperties.onDelete === 'Retain'
Retains(props) == props.onDelete = "Retain"

\* line 418: Retain returns at once.
delete_418 ==
    /\ pc = "delete_418"
    /\ IF Retains(req.ResourceProperties)
       THEN Return(req.PhysicalResourceId)
       ELSE pc' = "delete_438" /\ UNCHANGED result
    /\ UNCHANGED <<db, db0, userSecret, req, mgr, sql, faults, prev, aside>>

\* line 438: userClientManager.getCredentials()
delete_438 ==
    /\ pc = "delete_438"
    /\ \E f \in SecretFaultChoices :
        LET r == getCredentials(mgr["user"], f) IN
        /\ mgr' = [mgr EXCEPT !["user"] = r.m]
        /\ faults' = Count(f)
        /\ IF r.err # Ok THEN Throw(r.err)
           ELSE pc' = "delete_439" /\ UNCHANGED result
    /\ UNCHANGED <<db, db0, userSecret, req, sql, prev, aside>>

\* lines 439-443: adminClientManager.getCredentials(), then the collision check.
delete_439 ==
    /\ pc = "delete_439"
    /\ \E f \in SecretFaultChoices :
        LET r == getCredentials(mgr["admin"], f) IN
        /\ mgr' = [mgr EXCEPT !["admin"] = r.m]
        /\ faults' = Count(f)
        /\ IF r.err # Ok THEN Throw(r.err)
           ELSE IF Collides(userSecret, AdminSecret)
           THEN Throw(CollisionError)
           ELSE pc' = "delete_445" /\ UNCHANGED result
    /\ UNCHANGED <<db, db0, userSecret, req, sql, prev, aside>>

\* line 445: adminClientManager.getClient()
delete_445 ==
    /\ pc = "delete_445"
    /\ \E f \in FaultChoices :
        LET r == getClient("admin", mgr["admin"], db, f) IN
        /\ mgr' = [mgr EXCEPT !["admin"] = r.m]
        /\ faults' = Count(f)
        /\ IF r.err # Ok THEN Throw(r.err)
           ELSE pc' = "delete_448" /\ UNCHANGED result
    /\ UNCHANGED <<db, db0, userSecret, req, sql, prev, aside>>

\* Mutant: an error of DROP DATABASE is swallowed.
delete_448_Swallowing ==
    /\ pc = "delete_448"
    /\ \E f \in FaultChoices :
        LET r == IF f # Ok THEN Outcome(f, db) ELSE DropDatabase(db, TRUE) IN
        /\ db' = r.cat
        /\ sql' = Append(sql, Stmt("admin", "DROP DATABASE IF EXISTS", r.err))
        /\ faults' = Count(f)
        /\ pc' = "delete_451" /\ UNCHANGED result
    /\ UNCHANGED <<db0, userSecret, req, mgr, prev, aside>>

\* line 448: DROP DATABASE IF EXISTS
delete_448 ==
    /\ pc = "delete_448"
    /\ \E f \in FaultChoices :
        LET r == IF f # Ok THEN Outcome(f, db) ELSE DropDatabase(db, TRUE) IN
        /\ db' = r.cat
        /\ sql' = Append(sql, Stmt("admin", "DROP DATABASE IF EXISTS", r.err))
        /\ faults' = Count(f)
        /\ IF r.err # Ok THEN Throw(r.err)
           ELSE pc' = "delete_451" /\ UNCHANGED result
    /\ UNCHANGED <<db0, userSecret, req, mgr, prev, aside>>

\* Mutant: line 451 without IF EXISTS.
delete_451_NoIfExists ==
    /\ pc = "delete_451"
    /\ \E f \in FaultChoices :
        LET r == IF f # Ok THEN Outcome(f, db)
                 ELSE DropUser(db, userSecret.username, FALSE) IN
        /\ db' = r.cat
        /\ sql' = Append(sql, Stmt("admin", "DROP USER IF EXISTS", r.err))
        /\ faults' = Count(f)
        /\ IF r.err # Ok THEN Throw(r.err)
           ELSE pc' = "delete_453" /\ UNCHANGED result
    /\ UNCHANGED <<db0, userSecret, req, mgr, prev, aside>>

\* line 451: DROP USER IF EXISTS
delete_451 ==
    /\ pc = "delete_451"
    /\ \E f \in FaultChoices :
        LET r == IF f # Ok THEN Outcome(f, db)
                 ELSE DropUser(db, userSecret.username, TRUE) IN
        /\ db' = r.cat
        /\ sql' = Append(sql, Stmt("admin", "DROP USER IF EXISTS", r.err))
        /\ faults' = Count(f)
        /\ IF r.err # Ok THEN Throw(r.err)
           ELSE pc' = "delete_453" /\ UNCHANGED result
    /\ UNCHANGED <<db0, userSecret, req, mgr, prev, aside>>

\* Mutant: Delete returns the token recomputed, as Create does.
delete_453_Recomputed ==
    /\ pc = "delete_453"
    /\ mgr' = [mgr EXCEPT !["admin"] = clientEnd(@)]
    /\ Return(PhysicalResourceId(Host, DatabaseName, userSecret.username))
    /\ UNCHANGED <<db, db0, userSecret, req, sql, faults, prev, aside>>

\* lines 453-457: adminClient.end(), return the PhysicalResourceId given.
delete_453 ==
    /\ pc = "delete_453"
    /\ mgr' = [mgr EXCEPT !["admin"] = clientEnd(@)]
    /\ Return(req.PhysicalResourceId)
    /\ UNCHANGED <<db, db0, userSecret, req, sql, faults, prev, aside>>

handleDelete ==
    \/ delete_418
    \/ delete_438
    \/ delete_439
    \/ delete_445
    \/ delete_448
    \/ delete_451
    \/ delete_453

----------------------------------------------------------------------------

Next ==
    \/ handler
    \/ invocationEnds
    \/ handleCreate
    \/ handleUpdate
    \/ handleDelete

Spec == Init /\ [][Next]_vars

----------------------------------------------------------------------------
(* The handler at rest: the state the other two specifications keep it in *)

PgAtRest ==
    /\ db = [users |-> [u \in UserNames |-> IF u = "root" THEN AdminRole ELSE NoUser],
             dbExists |-> FALSE, dbOwner |-> NoOwner]
    /\ db0 = db
    /\ userSecret = [username |-> "svc", password |-> "new"]
    /\ req = NoEvent
    /\ pc = "idle"
    /\ mgr = [m \in Managers |-> NewManager]
    /\ sql = <<>>
    /\ result = Running
    /\ faults = 0
    /\ prev = NoPrev

----------------------------------------------------------------------------
(* TokenSpec: the physical resource id over names that may hold a '/' *)

Hosts == {"db.local", "db"}
DatabaseNames == {"app", "app/x", "x"}
Usernames == {"svc", "x/svc", "x"}
Triples == [host : Hosts, databaseName : DatabaseNames, username : Usernames]

\* lines 317-319: a Create that succeeds for the triple t returns its token.
handleCreate_317 ==
    /\ tok.created = NoTriple
    /\ \E t \in Triples :
        tok' = [tok EXCEPT !.created = t,
                           !.token = PhysicalResourceId(t.host, t.databaseName, t.username)]
    /\ UNCHANGED <<pgVars, lsv, lazy>>

\* lines 331-335: an Update is given that token; its properties and its user
\* secret give the triple t, and the check of line 333 accepts it or throws.
handleUpdate_333 ==
    /\ tok.created # NoTriple
    /\ \E t \in Triples :
        tok' = [tok EXCEPT !.checked = t,
                           !.accepted =
                               (tok.token =
                                PhysicalResourceId(t.host, t.databaseName, t.username))]
    /\ UNCHANGED <<pgVars, lsv, lazy>>

TokenInit == PgAtRest /\ tok = TokAtRest /\ lsv = LsvAtRest /\ lazy = LazyAtRest
TokenNext == handleCreate_317 \/ handleUpdate_333
TokenSpec == TokenInit /\ [][TokenNext]_vars

----------------------------------------------------------------------------
(* LsvSpec: src/latest_secret_version_handler/main.ts *)

\* lines 42-60: the version staged AWSCURRENT of the secret, after one
\* ListSecretVersionIds; an error if there is none.
onCreate(event, current) ==
    LET secretArn == event.ResourceProperties.secretArn
        latestVersionId == current[secretArn] IN
    IF latestVersionId = NoVersion
    THEN [NoResponse EXCEPT !.RequestType = event.RequestType,
                            !.err = "No latest version found", !.lists = 1]
    ELSE [RequestType |-> event.RequestType, err |-> Ok,
          PhysicalResourceId |-> secretArn,
          Data |-> [LatestVersionId |-> latestVersionId], lists |-> 1]

\* lines 62-67
onUpdate(event, current) ==
    [onCreate(event, current) EXCEPT !.RequestType = "Update"]

\* lines 69-76: no call of the secret store.
onDelete(event) ==
    [RequestType |-> event.RequestType, err |-> Ok,
     PhysicalResourceId |-> event.ResourceProperties.secretArn,
     Data |-> [LatestVersionId |-> event.PhysicalResourceId], lists |-> 0]

\* lines 79-96: the dispatch on the shape of the event.
latestSecretVersionHandler(event, current) ==
    CASE event.RequestType = "Create" -> onCreate(event, current)
      [] event.RequestType = "Update" -> onUpdate(event, current)
      [] event.RequestType = "Delete" -> onDelete(event)

\* What the caller keeps of a response: the PhysicalResourceId and the
\* attribute LatestVersionId of the resource; nothing of a failed one.
Recorded(r, secretArn) ==
    IF r.err # Ok THEN [lsv EXCEPT !.response = r]
    ELSE [lsv EXCEPT !.secretArn = secretArn,
                     !.PhysicalResourceId = r.PhysicalResourceId,
                     !.LatestVersionId = r.Data.LatestVersionId,
                     !.response = r]

\* The resource is created for one of the secrets.
lsvCreate ==
    /\ lsv.PhysicalResourceId = NoResource
    /\ \E a \in SecretArns :
        LET event == [RequestType |-> "Create",
                      ResourceProperties |-> [secretArn |-> a]] IN
        lsv' = Recorded(latestSecretVersionHandler(event, lsv.current), a)
    /\ UNCHANGED <<pgVars, tok, lazy>>

\* The resource is updated, with the PhysicalResourceId recorded for it.
lsvUpdate ==
    /\ lsv.PhysicalResourceId # NoResource
    /\ \E a \in SecretArns :
        LET event == [RequestType |-> "Update",
                      PhysicalResourceId |-> lsv.PhysicalResourceId,
                      ResourceProperties |-> [secretArn |-> a]] IN
        lsv' = Recorded(latestSecretVersionHandler(event, lsv.current), a)
    /\ UNCHANGED <<pgVars, tok, lazy>>

\* The resource is deleted, with the PhysicalResourceId recorded for it; the
\* attribute recorded last stays, for comparison.
lsvDelete ==
    /\ lsv.PhysicalResourceId # NoResource
    /\ LET event == [RequestType |-> "Delete",
                     PhysicalResourceId |-> lsv.PhysicalResourceId,
                     ResourceProperties |-> [secretArn |-> lsv.secretArn]] IN
       lsv' = [lsv EXCEPT !.PhysicalResourceId = NoResource,
                          !.response = latestSecretVersionHandler(event, lsv.current)]
    /\ UNCHANGED <<pgVars, tok, lazy>>

\* The secret store moves AWSCURRENT of a secret to another version, or the
\* secret loses it.
rotate ==
    /\ \E a \in SecretArns, v \in VersionIds \cup {NoVersion} :
        /\ v # lsv.current[a]
        /\ lsv' = [lsv EXCEPT !.current[a] = v]
    /\ UNCHANGED <<pgVars, tok, lazy>>

LsvInit == PgAtRest /\ tok = TokAtRest /\ lsv = LsvAtRest /\ lazy = LazyAtRest
LsvNext == lsvCreate \/ lsvUpdate \/ lsvDelete \/ rotate
LsvSpec == LsvInit /\ [][LsvNext]_vars

----------------------------------------------------------------------------
(* MgrSpec: one LazyPostgresClientFromSecretsManager, its methods called   *)
(* one after the other (each call awaited) in any order, against the       *)
(* server at rest: the admin role can connect, the role of the user secret *)
(* does not exist.                                                         *)

\* The manager after a call, with what the call was and how it ended; a
\* pg.Client was constructed (line 128) if the manager had none and has one.
Called(call, r) ==
    [lazy EXCEPT !.before = lazy.m, !.m = r.m, !.call = call, !.err = r.err,
                 !.made = IF lazy.m.client = "none" /\ r.m.client # "none"
                          THEN @ + 1 ELSE @,
                 !.calls = @ + 1,
                 !.failed = @ \/ r.err # Ok]

\* lines 87-117
mgrGetCredentials ==
    /\ lazy.calls < MaxCalls
    /\ \E f \in SecretFaultChoices :
        lazy' = Called("getCredentials", getCredentials(lazy.m, f))
    /\ UNCHANGED <<pgVars, tok, lsv>>

\* lines 119-141
mgrGetClient ==
    /\ lazy.calls < MaxCalls
    /\ \E f \in FaultChoices :
        lazy' = Called("getClient", getClient(lazy.name, lazy.m, db, f))
    /\ UNCHANGED <<pgVars, tok, lsv>>

\* lines 143-147
mgrEnd ==
    /\ lazy.calls < MaxCalls
    /\ lazy' = Called("end", [err |-> Ok, m |-> end(lazy.m)])
    /\ UNCHANGED <<pgVars, tok, lsv>>

MgrInit ==
    /\ PgAtRest /\ tok = TokAtRest /\ lsv = LsvAtRest
    /\ \E n \in Managers : lazy = [LazyAtRest EXCEPT !.name = n]
MgrNext == mgrGetCredentials \/ mgrGetClient \/ mgrEnd
MgrSpec == MgrInit /\ [][MgrNext]_vars

----------------------------------------------------------------------------
(* Properties *)

Props == req.ResourceProperties
IsCreate == req.RequestType = "Create"
IsUpdate == req.RequestType = "Update"
IsDelete == req.RequestType = "Delete"
SameUsername == userSecret.username = AdminSecret.username
TokenRecomputed == PhysicalResourceId(Host, DatabaseName, userSecret.username)
TargetUser == db.users[userSecret.username]
Issued(text) == \E i \in 1..Len(sql) : sql[i].stmt = text
NothingOpened == \A m \in Managers : mgr[m].client = "none" /\ mgr[m].opens = 0
CredentialsResolved == \A m \in Managers : mgr[m].credentials

\* C1: a Create, or a Delete with onDelete=Delete, whose two secrets resolve
\* to the same username issues no statement and opens no connection, never
\* returns a token, and once both secrets are resolved has thrown the
\* collision error.
C1_CollisionBeforeAnySql ==
    (SameUsername /\ (IsCreate \/ (IsDelete /\ Props.onDelete = "Delete"))) =>
        /\ sql = <<>>
        /\ NothingOpened
        /\ result.status # "ok"
        /\ CredentialsResolved => (pc = "threw" /\ result = Threw(CollisionError))

\* A Delete with onDelete=Delete has failed on the collision, after a Create
\* on the same secrets failed too.
C1_Witness ==
    /\ IsDelete /\ Props.onDelete = "Delete" /\ SameUsername
    /\ result = Threw(CollisionError)
    /\ prev.type = "Create" /\ prev.status = "failed" /\ ~prev.changed

\* C2: an Update whose token differs from the one recomputed issues no
\* statement and opens no connection, never returns a token, and once the
\* user secret is resolved has thrown the identity error, whatever the five
\* update policies.
C2_IdentityBeforeAnySql ==
    (IsUpdate /\ req.PhysicalResourceId # TokenRecomputed) =>
        /\ sql = <<>>
        /\ NothingOpened
        /\ result.status # "ok"
        /\ mgr["user"].credentials => (pc = "threw" /\ result = Threw(IdentityError))

\* An Update with all five policies switched on has failed on its token.
C2_Witness ==
    /\ IsUpdate /\ req.PhysicalResourceId # TokenRecomputed
    /\ \A k \in 1..5 : AxisOn(Props, k)
    /\ result = Threw(IdentityError)

C4_OtherCreateDatabaseErrorRethrown ==
    (IsCreate /\ \E i \in 1..Len(sql) :
                    /\ sql[i].stmt = "CREATE DATABASE"
                    /\ sql[i].err \notin {Ok, DUPLICATE_DATABASE}) =>
        result.status # "ok"

\* C5 as stated: when a run has ended, by a token or by an error, every
\* connection it opened has been closed exactly once.
C5_ClosedOnEveryExit ==
    Finished => \A m \in Managers : mgr[m].closes = mgr[m].opens

\* C5 amended: when a run has returned a token, every connection it opened
\* has been closed exactly once; when it has ended by an error, none of the
\* connections it opened has been closed.
C5_ClosedOnReturnOnly ==
    /\ pc = "returned" =>
        \A m \in Managers : mgr[m].opens <= 1 /\ mgr[m].closes = mgr[m].opens
    /\ pc = "threw" => \A m \in Managers : mgr[m].closes = 0

\* An Update has returned with its admin connection closed once and its user
\* manager never opened.
C5_Witness ==
    /\ IsUpdate /\ pc = "returned"
    /\ mgr["admin"].opens = 1 /\ mgr["admin"].closes = 1
    /\ mgr["user"].opens = 0

\* C6: a Delete with onDelete=Retain resolves no secret, opens no connection,
\* issues no statement, leaves the catalog as it was and returns the token
\* it was given.
C6_RetainIsNoOp ==
    (IsDelete /\ Props.onDelete = "Retain") =>
        /\ \A m \in Managers : mgr[m].lookups = 0 /\ ~mgr[m].credentials
        /\ NothingOpened
        /\ sql = <<>>
        /\ db = db0
        /\ pc \in {"delete_418", "returned"}
        /\ pc = "returned" => result = Returned(req.PhysicalResourceId)

\* A Retain with a token that does not match has returned, on a server with
\* the user and the database.
C6_Witness ==
    /\ IsDelete /\ Props.onDelete = "Retain" /\ pc = "returned"
    /\ req.PhysicalResourceId # TokenRecomputed
    /\ db.dbExists /\ TargetUser.exists

\* C7: a Delete with onDelete=Delete, distinct usernames and no fault never
\* fails, from any catalog, the one a Delete before it left included; it
\* returns the token it was given and leaves neither the user nor the
\* database.
C7_DeleteTwice ==
    (IsDelete /\ Props.onDelete = "Delete" /\ ~SameUsername /\ faults = 0) =>
        /\ result.status # "failed"
        /\ Finished =>
            /\ result = Returned(req.PhysicalResourceId)
            /\ ~db.dbExists
            /\ ~TargetUser.exists

\* The second of two such Deletes has returned; the first one dropped
\* something.
C7_Witness ==
    /\ IsDelete /\ Props.onDelete = "Delete" /\ ~SameUsername /\ faults = 0
    /\ prev = [type |-> "Delete", policy |-> "Delete", status |-> "ok", changed |-> TRUE]
    /\ pc = "returned"
    /\ Len(sql) = 2

\* C8: a Create with onCreateIfExists=Fail, distinct usernames and no fault,
\* on a server that has the user, throws the duplicate-user error as the
\* server raised it, having issued CREATE USER and nothing else.
C8_FailReraisesDuplicateUser ==
    (IsCreate /\ Props.onCreateIfExists = "Fail" /\ ~SameUsername /\ faults = 0
       /\ db0.users[userSecret.username].exists) =>
        /\ result.status # "ok"
        /\ Len(sql) <= 1
        /\ ~Issued("ALTER USER PASSWORD") /\ ~Issued("ALTER USER CREATEDB LOGIN")
        /\ ~Issued("DROP USER") /\ ~Issued("CREATE DATABASE")
        /\ sql # <<>> =>
            /\ sql = <<Stmt("admin", "CREATE USER", DUPLICATE_OBJECT)>>
            /\ pc = "threw"
            /\ result = Threw(DUPLICATE_OBJECT)
            /\ db = db0

\* A Create with Fail has thrown the duplicate-user error after an earlier
\* Create with Fail changed the catalog (created the user) and then failed.
C8_Witness ==
    /\ IsCreate /\ Props.onCreateIfExists = "Fail" /\ faults = 0
    /\ prev = [type |-> "Create", policy |-> "Fail", status |-> "failed", changed |-> TRUE]
    /\ result = Threw(DUPLICATE_OBJECT)

\* C9: a Create with onCreateIfExists=Adopt, distinct usernames and no fault,
\* on a server that has the user and the database, never fails and issues no
\* DROP; when it has returned, the user has the password of the secret,
\* CREATEDB and LOGIN, and owns the database.
C9_AdoptExisting ==
    (IsCreate /\ Props.onCreateIfExists = "Adopt" /\ ~SameUsername /\ faults = 0
       /\ db0.users[userSecret.username].exists /\ db0.dbExists) =>
        /\ result.status # "failed"
        /\ ~Issued("DROP USER") /\ ~Issued("DROP DATABASE")
        /\ Finished =>
            /\ result = Returned(TokenRecomputed)
            /\ TargetUser = Role(userSecret.password, TRUE, TRUE)
            /\ db.dbExists /\ db.dbOwner = userSecret.username

\* Such a Create has returned where the user had another password, neither
\* attribute, and did not own the database.
C9_Witness ==
    /\ IsCreate /\ Props.onCreateIfExists = "Adopt" /\ faults = 0
    /\ db0.users["svc"] = Role("old", FALSE, FALSE)
    /\ db0.dbOwner = "root"
    /\ userSecret.username = "svc"
    /\ pc = "returned"

\* C10 as stated: a Create with onCreateIfExists=DeleteAndRecreate, distinct
\* usernames and no fault, on a server that has the user and the database
\* (whoever owns it), never fails; when it has returned, user and database
\* were each dropped and created again, the user has the password of the
\* secret with CREATEDB and LOGIN, and owns the database.
C10_DeleteAndRecreateExisting ==
    (IsCreate /\ Props.onCreateIfExists = "DeleteAndRecreate" /\ ~SameUsername
       /\ faults = 0 /\ db0.users[userSecret.username].exists /\ db0.dbExists) =>
        /\ result.status # "failed"
        /\ Finished =>
            /\ result = Returned(TokenRecomputed)
            /\ Issued("DROP USER") /\ Issued("DROP DATABASE")
            /\ TargetUser = Role(userSecret.password, TRUE, TRUE)
            /\ db.dbExists /\ db.dbOwner = userSecret.username

\* C11 as stated: a Create with onCreateIfExists=Fail, distinct usernames and
\* no fault, on a server with neither the user nor the database, never fails;
\* when it has finished it returned the token host/database/username, the
\* user exists with CREATEDB and LOGIN, and the database exists and is owned
\* by the user.
C11_CreateOnEmptyServer ==
    (IsCreate /\ Props.onCreateIfExists = "Fail" /\ ~SameUsername /\ faults = 0
       /\ ~db0.users[userSecret.username].exists /\ ~db0.dbExists) =>
        /\ result.status # "failed"
        /\ Finished =>
            /\ result = Returned(TokenRecomputed)
            /\ TargetUser.exists /\ TargetUser.createdb /\ TargetUser.login
            /\ db.dbExists /\ db.dbOwner = userSecret.username

\* C12: in a Create, under any policy, once a CREATE USER statement has
\* failed with an error other than the duplicate-user one (an error without
\* a code included), that statement is the last one issued, the run has
\* thrown that error and returned no token, the user connection was never
\* opened or attempted, and no CREATE DATABASE was issued.
C12_OtherCreateUserErrorIsFatal ==
    \A i \in 1..Len(sql) :
        (IsCreate /\ sql[i].stmt = "CREATE USER"
           /\ sql[i].err \notin {Ok, DUPLICATE_OBJECT}) =>
            /\ i = Len(sql)
            /\ pc = "threw"
            /\ result = Threw(sql[i].err)
            /\ mgr["user"].client = "none" /\ mgr["user"].opens = 0
            /\ ~Issued("CREATE DATABASE")

\* Under Adopt the first CREATE USER was rejected with a PostgreSQL error that
\* is not the duplicate-user one, on a server that has the user and the
\* database, and the run has thrown.
C12_Witness ==
    /\ IsCreate /\ Props.onCreateIfExists = "Adopt" /\ pc = "threw"
    /\ sql = <<Stmt("admin", "CREATE USER", INTERNAL_ERROR)>>
    /\ db0.users[userSecret.username].exists /\ db0.dbExists

\* The statements an Update with the policies of the request issues: one per
\* axis set to Create/Always, in the order user existence, password, user
\* permissions, database existence, database ownership.
C13_Expected ==
    (IF Props.onUpdateIfUserDoesNotExist = "Create" THEN <<"CREATE USER">> ELSE <<>>)
    \o (IF Props.onUpdateSetUserPassword = "Always"
        THEN <<"ALTER USER PASSWORD">> ELSE <<>>)
    \o (IF Props.onUpdateSetUserPermissions = "Always"
        THEN <<"ALTER USER CREATEDB LOGIN">> ELSE <<>>)
    \o (IF Props.onUpdateIfDatabaseDoesNotExist = "Create"
        THEN <<"CREATE DATABASE">> ELSE <<>>)
    \o (IF Props.onUpdateSetDatabaseOwnership = "Always"
        THEN <<"ALTER DATABASE OWNER">> ELSE <<>>)

\* C13: the statements an Update has issued so far are a prefix of those of
\* its enabled axes in the fixed order; when it has returned (it passed the
\* identity check and no error aborted it) they are exactly those, and the
\* token returned is the one supplied.  An axis that is off issues nothing:
\* with all five off no statement is issued and no connection is opened.
C13_UpdateIssuesEnabledAxesInOrder ==
    IsUpdate =>
        /\ Len(sql) <= Len(C13_Expected)
        /\ \A i \in 1..Len(sql) : sql[i].stmt = C13_Expected[i]
        /\ C13_Expected = <<>> => NothingOpened
        /\ pc = "returned" =>
            /\ Len(sql) = Len(C13_Expected)
            /\ result = Returned(req.PhysicalResourceId)
            /\ req.PhysicalResourceId = TokenRecomputed

\* An Update with only onUpdateSetUserPassword=Always has returned after the
\* one ALTER USER ... PASSWORD, which changed the password of the user.
C13_Witness ==
    /\ IsUpdate /\ pc = "returned"
    /\ C13_Expected = <<"ALTER USER PASSWORD">>
    /\ sql = <<Stmt("admin", "ALTER USER PASSWORD", Ok)>>
    /\ db # db0

\* The two errors an Update swallows: a duplicate user from the CREATE USER
\* of the user-existence axis, a duplicate database from the CREATE DATABASE
\* of the database-existence axis.
C14_Swallowed(s) ==
    \/ s.stmt = "CREATE USER" /\ s.err = DUPLICATE_OBJECT
    \/ s.stmt = "CREATE DATABASE" /\ s.err = DUPLICATE_DATABASE

\* C14: in an Update, a statement that failed with any other error is the
\* last one issued and the run has thrown that error, returning no token; a
\* failed connect has likewise ended the run with an error; and the run
\* never fails with one of the two duplicate errors: after such an error it
\* goes on, and throws before the next statement only if a secret lookup or
\* a connect fails.
C14_UpdateSwallowsOnlyDuplicates ==
    IsUpdate =>
        /\ \A i \in 1..Len(sql) :
            (sql[i].err # Ok /\ ~C14_Swallowed(sql[i])) =>
                /\ i = Len(sql)
                /\ pc = "threw"
                /\ result = Threw(sql[i].err)
        /\ \A m \in Managers :
            mgr[m].client = "failed" => pc = "threw" /\ result.status = "failed"
        /\ result.error \notin {DUPLICATE_OBJECT, DUPLICATE_DATABASE}
        /\ \A i \in 1..Len(sql) :
            (C14_Swallowed(sql[i]) /\ i = Len(sql) /\ pc = "threw") =>
                \E m \in Managers :
                    \/ mgr[m].client = "failed"
                    \/ mgr[m].lookups > 0 /\ ~mgr[m].credentials

\* An Update with all five axes on has returned after both duplicate errors
\* were swallowed and every later axis ran.
C14_Witness ==
    /\ IsUpdate /\ pc = "returned" /\ Len(sql) = 5
    /\ sql[1] = Stmt("admin", "CREATE USER", DUPLICATE_OBJECT)
    /\ sql[4] = Stmt("user", "CREATE DATABASE", DUPLICATE_DATABASE)
    /\ sql[5].err = Ok

\* C15 as stated: an Update whose two secrets resolve to the same username
\* issues none of CREATE USER, ALTER USER, CREATE DATABASE, ALTER DATABASE,
\* whatever its five policies, and ends by throwing the collision error.
C15_UpdateCollisionIsFatal ==
    (IsUpdate /\ SameUsername) =>
        /\ ~Issued("CREATE USER")
        /\ ~Issued("ALTER USER PASSWORD") /\ ~Issued("ALTER USER CREATEDB LOGIN")
        /\ ~Issued("CREATE DATABASE") /\ ~Issued("ALTER DATABASE OWNER")
        /\ Finished => result = Threw(CollisionError)

\* C16: the token a Create returns is host, '/', databaseName, '/' and the
\* username of the user secret; an Update given that token, with the same
\* host, database name and username, has not failed the identity check; an
\* Update or a Delete that returned, returned the token it was given.
C16_TokenFormatAndPassThrough ==
    /\ (IsCreate /\ pc = "returned") =>
          /\ result.token = Host \o "/" \o DatabaseName \o "/" \o userSecret.username
          /\ result.token = "db.local/app/" \o userSecret.username
    /\ (IsUpdate
          /\ req.PhysicalResourceId
               = Host \o "/" \o DatabaseName \o "/" \o userSecret.username) =>
          result.error # IdentityError
    /\ ((IsUpdate \/ IsDelete) /\ pc = "returned") =>
          result = Returned(req.PhysicalResourceId)

\* After a Create that returned, an Update given "db.local/app/svc" has
\* passed the identity check, issued a statement and returned that token.
C16_Witness ==
    /\ prev.type = "Create" /\ prev.status = "ok"
    /\ IsUpdate /\ pc = "returned" /\ sql # <<>>
    /\ userSecret.username = "svc"
    /\ result.token = "db.local/app/svc"

\* C17 as stated: a Create with onCreateIfExists=Adopt, distinct usernames and
\* no fault, run again after the same Create failed with part of its
\* statements in effect, never fails; when it has finished it returned the
\* token, the user has the password of the secret with CREATEDB and LOGIN, and
\* owns the database.
C17_AdoptRerunConverges ==
    (IsCreate /\ Props.onCreateIfExists = "Adopt" /\ ~SameUsername /\ faults = 0
       /\ prev = [type |-> "Create", policy |-> "Adopt", status |-> "failed",
                  changed |-> TRUE]) =>
        /\ result.status # "failed"
        /\ Finished =>
            /\ result = Returned(TokenRecomputed)
            /\ TargetUser = Role(userSecret.password, TRUE, TRUE)
            /\ db.dbExists /\ db.dbOwner = userSecret.username

\* C18: when a Create, an Update or a Delete has returned a token, each
\* manager either opened one connection, which is closed and was closed once,
\* or opened none and was not closed; the user manager of a Delete, the user
\* manager of an Update whose database-existence axis is off and the admin
\* manager of an Update whose four other axes are off opened none.
C18_ClosedOnceBeforeReturn ==
    pc = "returned" =>
        /\ \A m \in Managers :
            \/ mgr[m].client = "ended" /\ mgr[m].opens = 1 /\ mgr[m].closes = 1
            \/ mgr[m].client = "none" /\ mgr[m].opens = 0 /\ mgr[m].closes = 0
        /\ IsCreate => \A m \in Managers : mgr[m].client = "ended"
        /\ IsDelete => mgr["user"].client = "none"
        /\ (IsDelete /\ Props.onDelete = "Delete") => mgr["admin"].client = "ended"
        /\ (IsUpdate /\ Props.onUpdateIfDatabaseDoesNotExist = "Ignore") =>
               mgr["user"].client = "none"
        /\ (IsUpdate /\ Props.onUpdateIfUserDoesNotExist = "Ignore"
              /\ Props.onUpdateSetUserPassword = "Never"
              /\ Props.onUpdateSetUserPermissions = "Never"
              /\ Props.onUpdateSetDatabaseOwnership = "Never") =>
               mgr["admin"].client = "none"

\* An Update with only its database-existence axis on has returned: its user
\* connection is closed, its admin manager never had one.
C18_Witness ==
    /\ IsUpdate /\ pc = "returned"
    /\ mgr["user"].client = "ended" /\ mgr["user"].closes = 1
    /\ mgr["admin"].client = "none" /\ mgr["admin"].closes = 0

\* C19 as stated (LsvSpec): the response to a Delete that follows a Create or
\* an Update was made without a call of the secret store, and its
\* LatestVersionId is the LatestVersionId that Create or Update returned and
\* the caller recorded.
C19_DeleteEchoesRecordedVersion ==
    lsv.response.RequestType = "Delete" =>
        /\ lsv.response.err = Ok
        /\ lsv.response.lists = 0
        /\ lsv.response.Data.LatestVersionId = lsv.LatestVersionId

\* C20 as stated (TokenSpec): the identity check accepts an Update only when
\* its host, database name and username are those the token was computed
\* from at Create, names that hold a '/' included.
C20_TokenIdentifiesTriple ==
    tok.accepted => tok.checked = tok.created

\* C21 as stated: when a Create has returned a token, under any policy, from
\* any catalog and whatever faults were injected, the user exists with
\* CREATEDB and LOGIN and the database exists and is owned by the user.
C21_CreateSuccessMeansCreated ==
    (IsCreate /\ pc = "returned") =>
        /\ TargetUser.exists /\ TargetUser.createdb /\ TargetUser.login
        /\ db.dbExists /\ db.dbOwner = userSecret.username

\* C22 (MgrSpec): while no call on the manager has failed, the secret was
\* looked up at most once, at most one pg.Client was constructed and at most
\* one connection opened; after a getCredentials() exactly one lookup was
\* made, after a getClient() the manager holds the one client, opened once;
\* an end() on a manager that has no client leaves the manager as it was.
C22_ManagerMemoizes ==
    ~lazy.failed =>
        /\ lazy.m.lookups <= 1 /\ lazy.m.opens <= 1 /\ lazy.made <= 1
        /\ lazy.call = "getCredentials" =>
               lazy.m.credentials /\ lazy.m.lookups = 1
        /\ lazy.call = "getClient" =>
               /\ lazy.m.client # "none" /\ lazy.made = 1
               /\ lazy.m.lookups = 1 /\ lazy.m.opens = 1
               /\ lazy.before.client # "none" => lazy.m = lazy.before
        /\ (lazy.call = "end" /\ lazy.before.client = "none") =>
               lazy.m = lazy.before /\ lazy.m.closes = 0 /\ lazy.m.opens = 0

\* A getClient() on a manager that was connected already returned, as the
\* third call or later, none having failed.
C22_Witness ==
    /\ ~lazy.failed /\ lazy.calls >= 3
    /\ lazy.call = "getClient" /\ lazy.before.client = "connected"
    /\ lazy.m.client = "connected"

\* C26 as stated (MgrSpec): a getClient() that returns, returns a client
\* that is connected: not one whose connect failed, not one that was ended.
C26_GetClientNeverReturnsDeadClient ==
    (lazy.call = "getClient" /\ lazy.err = Ok) => lazy.m.client = "connected"

\* C23: a Delete with onDelete=Delete issues DROP DATABASE IF EXISTS and then
\* DROP USER IF EXISTS, both on the admin connection, and nothing else; its
\* user manager never opens or attempts a connection; when it has returned
\* it issued exactly the two, without error; once DROP DATABASE has failed,
\* DROP USER is not issued and the run has thrown, returning no token.
C23_DeleteIssuesTwoDrops ==
    (IsDelete /\ Props.onDelete = "Delete") =>
        /\ Len(sql) <= 2
        /\ Len(sql) >= 1 => sql[1].conn = "admin" /\ sql[1].stmt = "DROP DATABASE IF EXISTS"
        /\ Len(sql) = 2 => sql[2].conn = "admin" /\ sql[2].stmt = "DROP USER IF EXISTS"
        /\ mgr["user"].client = "none" /\ mgr["user"].opens = 0
        /\ sql # <<>> => ~SameUsername
        /\ pc = "returned" =>
               Len(sql) = 2 /\ sql[1].err = Ok /\ sql[2].err = Ok
        /\ (Len(sql) >= 1 /\ sql[1].err # Ok) =>
               Len(sql) = 1 /\ pc = "threw" /\ result = Threw(sql[1].err)

\* Such a Delete has returned after dropping a database that the user owned
\* and then the user.
C23_Witness ==
    /\ IsDelete /\ Props.onDelete = "Delete" /\ pc = "returned"
    /\ db0.dbExists /\ db0.dbOwner = userSecret.username
    /\ ~db.dbExists /\ ~TargetUser.exists
    /\ Len(sql) = 2

\* C24: in a Create, under every policy, the user manager has no client
\* while the user step runs; when the user connection is about to be opened,
\* and from then on, the user exists with the password of the user secret,
\* LOGIN and CREATEDB; CREATE DATABASE is issued on the user connection and
\* every other statement on the admin connection.
C24_UserConnectionAfterUserStep ==
    IsCreate =>
        /\ pc \in {"create_249", "create_250", "create_256", "create_267",
                    "create_275", "create_276", "create_278", "create_279"} =>
               mgr["user"].client = "none"
        /\ (pc = "create_287" \/ mgr["user"].client # "none") =>
               /\ Issued("CREATE USER")
               /\ TargetUser = Role(userSecret.password, TRUE, TRUE)
        /\ \A i \in 1..Len(sql) :
               sql[i].conn = IF sql[i].stmt = "CREATE DATABASE" THEN "user" ELSE "admin"

\* Under DeleteAndRecreate the user connection has been opened for a user
\* that had another password and no LOGIN before the run, and the database
\* was dropped on the admin connection, then created on the user connection.
C24_Witness ==
    /\ IsCreate /\ Props.onCreateIfExists = "DeleteAndRecreate"
    /\ db0.users[userSecret.username] = Role("old", FALSE, FALSE)
    /\ mgr["user"].client = "connected"
    /\ Len(sql) = 6
    /\ sql[2] = Stmt("admin", "DROP USER", Ok)
    /\ sql[5] = Stmt("admin", "DROP DATABASE", Ok)
    /\ sql[6] = Stmt("user", "CREATE DATABASE", Ok)

\* C25 as stated, its last step: after a Delete with onDelete=Delete that
\* returned and left the server with neither the user nor the database, a
\* Create with onCreateIfExists=Fail, distinct usernames and no fault never
\* fails, and when it has finished it returned the token
\* host/database/username.
C25_CreateAfterDeleteSucceeds ==
    (IsCreate /\ Props.onCreateIfExists = "Fail" /\ ~SameUsername /\ faults = 0
       /\ prev.type = "Delete" /\ prev.policy = "Delete" /\ prev.status = "ok"
       /\ ~db0.users[userSecret.username].exists /\ ~db0.dbExists) =>
        /\ result.status # "failed"
        /\ Finished => result = Returned(TokenRecomputed)

====
